---- MODULE Spec2Model ----
(***************************************************************************)
(* A model of internal/objectstore/dynamic_cache.go: the DynamicCache that *)
(* resolves a per-type informer (permission probe, factory lookup, initial *)
(* sync wait under dc.mu) and serves List/Get/Watch from it.               *)
(*                                                                         *)
(* Four specifications share the module:                                   *)
(*   Spec       concurrent callers of List/Get/Watch on one DynamicCache:  *)
(*              the resolution path (currentInformer) and Watch's body.    *)
(*   GetSpec    one Get call after the other: the retried local fetch and  *)
(*              the selector re-validation.                                *)
(*   AccessSpec one checkAccess call after the other, verb by verb.        *)
(*   ListSpec   one List call after the other over a drawn informer store. *)
(* Errors are chains of message strings, outermost wrapper first; the nil  *)
(* error is the empty chain.                                               *)
(***************************************************************************)
EXTENDS Naturals, Sequences, FiniteSets

\* ------------------------------------------------------------------ bounds
NumCallers == 2
MaxCalls == 2
NumLabels == 2

Callers == 1..NumCallers
Labels == 1..NumLabels

\* ------------------------------------------------------------------ values
NamespaceAll == ""
Namespaces == {NamespaceAll, "default"}

PodGVK == [group |-> "", version |-> "v1", kind |-> "Pod"]
DeploymentGVK == [group |-> "apps", version |-> "v1", kind |-> "Deployment"]
GVKs == {PodGVK, DeploymentGVK}

NoGVR == [group |-> "", version |-> "", resource |-> ""]

GroupKind(gvk) == [group |-> gvk.group, kind |-> gvk.kind]

\* client.Resource(gvk.GroupKind()) when the REST mapping succeeds.
Resource(gk) ==
  IF gk.kind = "Pod"
  THEN [group |-> gk.group, version |-> "v1", resource |-> "pods"]
  ELSE [group |-> gk.group, version |-> "v1", resource |-> "deployments"]

Ops == {"List", "Get", "Watch"}
Verbs == <<"get", "list", "watch">>
VerbSet == {Verbs[i] : i \in 1..Len(Verbs)}
Responses == {"allowed", "denied", "error"}

\* ------------------------------------------------------------------ errors
Nil == <<>>
Wrap(err, msg) == <<msg>> \o err
Fmt(b) == IF b THEN "true" ELSE "false"

ErrResource == <<"no matches for kind">>
ErrShuttingDown == <<"shutting down">>
ErrNotFound == <<"not found">>
ErrTransient == <<"lister failure">>
ErrFiltered == <<"object found but filtered by selector">>

IsNotFound(err) == err = ErrNotFound

VARIABLES
  \* Spec: the DynamicCache, its factory and its callers
  pc, call, informer, ret, registered, mu, seenGVKs, streams, started, synced,
  stopped, handlers, probes, ncalls, mustHaveVerbs,
  \* GetSpec: the input and the result of one Get call
  gpc, gin, gout,
  \* AccessSpec: the input and the result of one checkAccess call
  apc, ain, aout,
  \* ListSpec: the input and the result of one List call
  lpc, lin, lout

cacheVars == <<pc, call, informer, ret, registered, mu, seenGVKs, streams,
               started, synced, stopped, handlers, probes, ncalls,
               mustHaveVerbs>>
getVars == <<gpc, gin, gout>>
accessVars == <<apc, ain, aout>>
listVars == <<lpc, lin, lout>>
vars == <<cacheVars, getVars, accessVars, listVars>>

\* ------------------------------------------------------------ checkAccess
\* checkVerb's verdict: allowed only when Create succeeded and the response
\* says so; an error of Create counts as not allowed.
checkVerb(resp) == resp = "allowed"

\* The SelfSubjectAccessReview checkVerb sends. A namespace of the key is
\* replaced by metav1.NamespaceAll; without one the field keeps its zero value.
ResourceAttributes(verb, gvr, namespace) ==
  [verb |-> verb, group |-> gvr.group, version |-> gvr.version,
   resource |-> gvr.resource,
   namespace |-> IF namespace # "" THEN NamespaceAll ELSE ""]

\* The loop "for _, v := range verbs" stopped at the first denied verb.
RECURSIVE VerbLoopBreaks(_, _, _, _, _)
VerbLoopBreaks(i, resp, gvr, namespace, acc) ==
  IF i > Len(Verbs)
  THEN acc
  ELSE LET v == Verbs[i]
           nxt == [queried |-> Append(acc.queried,
                                      ResourceAttributes(v, gvr, namespace)),
                   have |-> [acc.have EXCEPT ![v] = checkVerb(resp[v])]]
       IN  IF checkVerb(resp[v])
           THEN VerbLoopBreaks(i + 1, resp, gvr, namespace, nxt)
           ELSE nxt

\* The loop "for _, v := range verbs": every verb is queried and recorded.
RECURSIVE VerbLoop(_, _, _, _, _)
VerbLoop(i, resp, gvr, namespace, acc) ==
  IF i > Len(Verbs)
  THEN acc
  ELSE LET v == Verbs[i]
       IN  VerbLoop(i + 1, resp, gvr, namespace,
                    [queried |-> Append(acc.queried,
                                        ResourceAttributes(v, gvr, namespace)),
                     have |-> [acc.have EXCEPT ![v] = checkVerb(resp[v])]])

\* A check that fails only when every entry of mustHaveVerbs is false.
AccessErrorNone(have) ==
  IF \A v \in VerbSet : have[v] = FALSE
  THEN <<"requires cluster scoped get/list/watch access, have",
         "get:", Fmt(have["get"]), "list:", Fmt(have["list"]),
         "watch:", Fmt(have["watch"])>>
  ELSE Nil

\* The error built from mustHaveVerbs: nil when no entry is false.
AccessError(have) ==
  IF \E v \in VerbSet : have[v] = FALSE
  THEN <<"requires cluster scoped get/list/watch access, have",
         "get:", Fmt(have["get"]), "list:", Fmt(have["list"]),
         "watch:", Fmt(have["watch"])>>
  ELSE Nil

\* checkAccess. The error of client.KubernetesClient() is wrapped and dropped,
\* and the nil client is used: AuthorizationV1() on it panics.
checkAccess(clientOK, resp, gvr, namespace) ==
  IF ~clientOK
  THEN [panic |-> TRUE, err |-> Nil, queried |-> <<>>,
        have |-> [v \in VerbSet |-> FALSE]]
  ELSE LET r == VerbLoop(1, resp, gvr, namespace,
                         [queried |-> <<>>, have |-> [v \in VerbSet |-> FALSE]])
       IN  [panic |-> FALSE, err |-> AccessError(r.have),
            queried |-> r.queried, have |-> r.have]

GVRs == {Resource(GroupKind(g)) : g \in GVKs}

NoAccessResult ==
  [panic |-> FALSE, err |-> Nil, queried |-> <<>>,
   have |-> [v \in VerbSet |-> FALSE]]

AccessInit ==
  /\ apc = "start"
  /\ ain \in [clientOK : BOOLEAN, resp : [VerbSet -> Responses],
              gvr : GVRs, namespace : Namespaces]
  /\ aout = NoAccessResult

\* One call of checkAccess on the drawn input.
AccessCall ==
  /\ apc = "start"
  /\ aout' = checkAccess(ain.clientOK, ain.resp, ain.gvr, ain.namespace)
  /\ apc' = IF aout'.panic THEN "panic" ELSE "done"
  /\ UNCHANGED <<ain, cacheVars, getVars, listVars>>

\* -------------------------------------------------------------------- Get
\* A retry budget of one attempt more.
RetryAttemptsMore == 3 + 1

\* The attempts Get allows retry.Retry.
RetryAttempts == 3

NoSelector == [isNil |-> TRUE, labels |-> {}]
Selectors == {NoSelector} \cup {[isNil |-> FALSE, labels |-> L] : L \in SUBSET Labels}

\* What the informer's lister answers to one Get(name): the informer's cache
\* changes under the caller, so each attempt has its own answer.
ListerAnswers ==
  {[kind |-> "notfound", labels |-> {}], [kind |-> "error", labels |-> {}]}
    \cup {[kind |-> "found", labels |-> L] : L \in SUBSET Labels}

\* A pointer is a set of at most one element; the nil pointer is empty.
NilObject == {}

\* g.Get(key.Name) on the lister chosen by key.Namespace.
ListerGet(key, answer) ==
  IF answer.kind = "found"
  THEN [object |-> {[name |-> key.name, namespace |-> key.namespace,
                     labels |-> answer.labels]},
        err |-> Nil]
  ELSE IF answer.kind = "notfound"
  THEN [object |-> NilObject, err |-> ErrNotFound]
  ELSE [object |-> NilObject, err |-> ErrTransient]

\* retry.Stop(err): an error marked so that Retry gives up on it.
Stop(err) == [stop |-> TRUE, error |-> err]
\* An error returned to Retry as it is.
Plain(err) == [stop |-> FALSE, error |-> err]

\* A closure that keeps the error of g.Get in a variable of its own: the
\* captured err of Get is left as dc.currentInformer set it.
fnErrNotCaptured(st, key, answer) ==
  LET r == ListerGet(key, answer)
      st1 == [st EXCEPT !.object = r.object, !.calls = @ + 1]
  IN  IF r.err # Nil
      THEN IF ~IsNotFound(r.err)
           THEN [st |-> [st1 EXCEPT !.retryCount = @ + 1],
                 ret |-> Stop(Wrap(r.err, "lister Get"))]
           ELSE [st |-> st1, ret |-> Plain(r.err)]
      ELSE [st |-> st1, ret |-> Plain(Nil)]

\* The closure handed to retry.Retry: it assigns the captured object and err,
\* counts in retryCount, and tells Retry how it went.
fn(st, key, answer) ==
  LET r == ListerGet(key, answer)
      st1 == [st EXCEPT !.object = r.object, !.err = r.err, !.calls = @ + 1]
  IN  IF r.err # Nil
      THEN IF ~IsNotFound(r.err)
           THEN [st |-> [st1 EXCEPT !.retryCount = @ + 1],
                 ret |-> Stop(Wrap(r.err, "lister Get"))]
           ELSE [st |-> st1, ret |-> Plain(r.err)]
      ELSE [st |-> st1, ret |-> Plain(Nil)]

\* retry.Retry(attempts, sleep, fn): fn is called until it returns nil, returns
\* a Stop error, or the attempts are used up, with one sleep before each
\* further attempt.  answers[i] is the lister's answer to the i-th call.
RECURSIVE Retry(_, _, _, _, _)
Retry(attempts, key, answers, i, st) ==
  LET r == fn(st, key, answers[i])
  IN  IF r.ret.error = Nil
      THEN [st |-> r.st, err |-> Nil]
      ELSE IF r.ret.stop
      THEN [st |-> r.st, err |-> r.ret.error]
      ELSE IF attempts - 1 > 0
      THEN Retry(attempts - 1, key, answers, i + 1,
                 [r.st EXCEPT !.delays = @ + 1])
      ELSE [st |-> r.st, err |-> r.ret.error]

\* A selector that is satisfied by any one of its pairs.
MatchesSome(selector, labels) ==
  selector.labels = {} \/ selector.labels \cap labels # {}

\* labels.Set.AsSelector().Matches: every pair of the selector is a label.
Matches(selector, labels) == selector.labels \subseteq labels

\* meta.NewAccessor().Labels(object).  The objects of a dynamic informer are
\* unstructured objects with metadata, for which the accessor does not fail.
AccessorLabels(obj) == obj.labels

\* kruntime.DefaultUnstructuredConverter.ToUnstructured(object)
ToUnstructured(obj) ==
  [metadata |-> [name |-> obj.name, namespace |-> obj.namespace,
                 labels |-> obj.labels]]

\* Watch dropping the error of the resolution.
ResolveSwallowed(op, err) ==
  IF op = "Watch" THEN Nil ELSE Wrap(err, "retrieving informer for key")

\* "retrieving informer for <key>": how List, Get and Watch return the error
\* of dc.currentInformer.
ResolveFailed(op, err) == Wrap(err, "retrieving informer for key")

GetStart == [object |-> NilObject, err |-> Nil, retryCount |-> 0,
             calls |-> 0, delays |-> 0]

NoGetResult ==
  [object |-> NilObject, err |-> Nil, retryErr |-> Nil, retryCount |-> 0,
   calls |-> 0, delays |-> 0, annotated |-> FALSE]

\* Get after the tracing preamble: resolveErr is the error of
\* dc.currentInformer(key).
Get(key, resolveErr, answers) ==
  IF resolveErr # Nil
  THEN [NoGetResult EXCEPT !.err = ResolveFailed("Get", resolveErr)]
  ELSE LET r == Retry(RetryAttempts, key, answers, 1, GetStart)
           base == [NoGetResult EXCEPT !.retryErr = r.err,
                                       !.retryCount = r.st.retryCount,
                                       !.calls = r.st.calls,
                                       !.delays = r.st.delays,
                                       !.annotated = r.st.retryCount > 0]
       IN  IF r.err # Nil
           THEN [base EXCEPT !.err = r.st.err]
           ELSE LET obj == CHOOSE o \in r.st.object : TRUE
                IN  IF ~key.selector.isNil
                       /\ ~Matches(key.selector, AccessorLabels(obj))
                    THEN [base EXCEPT !.err = ErrFiltered]
                    ELSE [base EXCEPT !.object = {ToUnstructured(obj)}]

GetKeys == [namespace : Namespaces, name : {"web"}, selector : Selectors]
ResolveErrors == {Nil, Wrap(ErrResource, "client resource")}

GetInit ==
  /\ gpc = "start"
  /\ gin \in [key : GetKeys, resolveErr : ResolveErrors,
              answers : [1..RetryAttempts -> ListerAnswers]]
  /\ gout = NoGetResult

\* One call of Get on the drawn key and lister answers.
GetCall ==
  /\ gpc = "start"
  /\ gout' = Get(gin.key, gin.resolveErr, gin.answers)
  /\ gpc' = "done"
  /\ UNCHANGED <<gin, cacheVars, accessVars, listVars>>

\* ------------------------------------------------------------------- List
\* The objects an informer can hold: one slot per namespace and name.
ObjectIDs ==
  <<[namespace |-> "default", name |-> "web"],
    [namespace |-> "default", name |-> "db"],
    [namespace |-> "kube-system", name |-> "web"]>>

Absent == [present |-> FALSE, labels |-> {}]
Slots == {Absent} \cup {[present |-> TRUE, labels |-> L] : L \in SUBSET Labels}

\* The contents of the informer's indexer, in the order it lists them.
Stores == [1..Len(ObjectIDs) -> Slots]

ListNamespaces == {NamespaceAll, "default", "kube-system"}

\* informer.Lister(): the lister over every namespace.
Lister == [scoped |-> FALSE, namespace |-> NamespaceAll]
\* informer.Lister().ByNamespace(namespace)
ByNamespace(namespace) == [scoped |-> TRUE, namespace |-> namespace]

\* A List that reads the lister of all namespaces whatever the key.
ListerForAll(key) == Lister

\* The lister List picks by key.Namespace.
ListerFor(key) ==
  IF key.namespace = "" THEN Lister ELSE ByNamespace(key.namespace)

\* kLabels.Everything(), or key.Selector.AsSelector() when the key has one.
ListSelector(key) ==
  IF key.selector.isNil THEN NoSelector ELSE key.selector

\* l.List(selector): the objects of the lister's scope that the selector
\* matches, as the indexer lists them from slot i on.
RECURSIVE ListerList(_, _, _, _)
ListerList(l, selector, store, i) ==
  IF i > Len(ObjectIDs)
  THEN <<>>
  ELSE LET id == ObjectIDs[i]
           rest == ListerList(l, selector, store, i + 1)
       IN  IF /\ store[i].present
              /\ l.scoped => id.namespace = l.namespace
              /\ Matches(selector, store[i].labels)
           THEN <<[name |-> id.name, namespace |-> id.namespace,
                   labels |-> store[i].labels]>> \o rest
           ELSE rest

ErrLister == <<"index failure">>
NoListResult == [list |-> <<>>, err |-> Nil]

\* List after the tracing preamble: resolveErr is the error of
\* dc.currentInformer(key), listErr the error of l.List.
List(key, resolveErr, store, listErr) ==
  IF resolveErr # Nil
  THEN [NoListResult EXCEPT !.err = ResolveFailed("List", resolveErr)]
  ELSE IF listErr # Nil
  THEN [NoListResult EXCEPT !.err = Wrap(listErr, "listing key")]
  ELSE LET objects == ListerList(ListerFor(key), ListSelector(key), store, 1)
       IN  [NoListResult EXCEPT
              !.list = [i \in 1..Len(objects) |-> ToUnstructured(objects[i])]]

ListKeys == [namespace : ListNamespaces, selector : Selectors]

ListInit ==
  /\ lpc = "start"
  /\ lin \in [key : ListKeys, resolveErr : ResolveErrors, store : Stores,
              listErr : {Nil, ErrLister}]
  /\ lout = NoListResult

\* One call of List on the drawn key and store.
ListCall ==
  /\ lpc = "start"
  /\ lout' = List(lin.key, lin.resolveErr, lin.store, lin.listErr)
  /\ lpc' = "done"
  /\ UNCHANGED <<lin, cacheVars, getVars, accessVars>>

\* ------------------------------------------------------- DynamicCache
NoGVK == [group |-> "", version |-> "", kind |-> ""]
NoCall == [op |-> "none", gvk |-> NoGVK, namespace |-> ""]
NoInformer == [gvr |-> NoGVR, serial |-> 0]
Unlocked == 0

\* How the remote side answers one resolution in Spec: the REST mapping
\* fails, the Kubernetes client cannot be had, every verb is allowed, or
\* only get is.
RemoteAnswers == {"resource error", "client error", "allowed", "get only"}
ResourceOK(answer) == answer # "resource error"
ClientOK(answer) == answer # "client error"
VerbAnswers(answer) ==
  [v \in VerbSet |-> IF answer = "allowed" \/ v = "get"
                     THEN "allowed" ELSE "denied"]

\* The keys of Spec carry one namespace: checkAccess asks cluster wide
\* whatever the namespace, and the factory is cluster scoped.
SpecNamespaces == {"default"}

\* A factory that builds a new informer on every request.
ForResourceFresh(gvr, existing) ==
  [gvr |-> gvr, serial |-> Cardinality({s \in existing : s.gvr = gvr}) + 1]

\* factory.ForResource(gvr): the informer the factory already has for the
\* resource, or a new one.
ForResource(gvr, existing) ==
  IF \E s \in existing : s.gvr = gvr
  THEN CHOOSE s \in existing : s.gvr = gvr
  ELSE [gvr |-> gvr, serial |-> 1]

\* The package-level currentInformer on a cache built by NewDynamicCache
\* (factory and client are not nil): resource mapping, permission probe,
\* informer of the factory.
currentInformer(key, resourceOK, clientOK, resp, existing) ==
  IF ~resourceOK
  THEN [informer |-> NoInformer, err |-> Wrap(ErrResource, "client resource"),
        probed |-> FALSE, panic |-> FALSE, have |-> NoAccessResult.have]
  ELSE LET gvr == Resource(GroupKind(key.gvk))
           a == checkAccess(clientOK, resp, gvr, key.namespace)
       IN  IF a.panic
           THEN [informer |-> NoInformer, err |-> Nil, probed |-> TRUE,
                 panic |-> TRUE, have |-> a.have]
           ELSE IF a.err # Nil
           THEN [informer |-> NoInformer,
                 err |-> <<"check access:", gvr.resource>> \o a.err,
                 probed |-> TRUE, panic |-> FALSE, have |-> a.have]
           ELSE [informer |-> ForResource(gvr, existing), err |-> Nil,
                 probed |-> TRUE, panic |-> FALSE, have |-> a.have]

\* A cache that marks the type seen whatever became of the resolution.
SeenAlways(seen, gvk, err) == seen \cup {gvk}

\* A write that starts the seen set over with the type of the call.
SeenReset(seen, gvk, err) == IF err = Nil THEN {gvk} ELSE seen

\* seenGVKs when dc.currentInformer returns err for a type: the write
\* dc.seenGVKs[gvk] = true comes after every error return, so only a call
\* that returns nil has made it.
SeenAfter(seen, gvk, err) == IF err = Nil THEN seen \cup {gvk} ELSE seen

\* The channel handed to kcache.WaitForCacheSync: ctx.Done() of
\* context.Background(), not dc.stopCh.
WaitChannel == "context.Background().Done()"

\* Whether a channel is closed: dc.stopCh is closed by the shutdown, the Done
\* channel of the background context never is.
ChannelClosed(ch) == ch = "dc.stopCh" /\ stopped

\* An informer that counts as synced as soon as it runs.
HasStarted(s) == s \in started

\* informer.Informer().HasSynced: the initial list was received and applied.
HasSynced(s) == s \in synced

\* A panic of one goroutine ends the process.
Panicked == \E c \in Callers : pc[c] = "panic"

CacheInit ==
  /\ pc = [c \in Callers |-> "idle"]
  /\ call = [c \in Callers |-> NoCall]
  /\ informer = [c \in Callers |-> NoInformer]
  /\ ret = [c \in Callers |-> Nil]
  /\ registered = [c \in Callers |-> NoInformer]
  /\ mu = Unlocked
  /\ seenGVKs = {}
  /\ streams = {}
  /\ started = {}
  /\ synced = {}
  /\ stopped = FALSE
  /\ handlers = [s \in {} |-> 0]
  /\ probes = [g \in GVKs |-> 0]
  /\ ncalls = 0
  /\ mustHaveVerbs = [c \in Callers |-> NoAccessResult.have]

\* The panic of a goroutine ends the process: every caller is gone, and with
\* the process the cache, its factory and its informers.
Crash ==
  /\ pc' = [c \in Callers |-> "panic"]
  /\ call' = [c \in Callers |-> NoCall]
  /\ informer' = [c \in Callers |-> NoInformer]
  /\ ret' = [c \in Callers |-> Nil]
  /\ registered' = [c \in Callers |-> NoInformer]
  /\ mu' = Unlocked
  /\ seenGVKs' = {}
  /\ streams' = {}
  /\ started' = {}
  /\ synced' = {}
  /\ handlers' = [s \in {} |-> 0]
  /\ probes' = [g \in GVKs |-> 0]
  /\ mustHaveVerbs' = [c \in Callers |-> NoAccessResult.have]
  /\ UNCHANGED <<stopped, ncalls>>

\* A caller enters List, Get or Watch and runs the package-level
\* currentInformer (dc.currentInformer up to its dc.mu.Lock()).  The callers
\* are interchangeable: they are numbered in the order of their first call,
\* and at most MaxCalls calls are made in all.
Begin(c) ==
  /\ ~Panicked
  /\ pc[c] \in {"idle", "done"}
  /\ ncalls < MaxCalls
  /\ \A d \in Callers : d < c => pc[d] # "idle"
  /\ \E gvk \in GVKs, ns \in SpecNamespaces, answer \in RemoteAnswers :
       LET r == currentInformer([gvk |-> gvk, namespace |-> ns],
                                ResourceOK(answer), ClientOK(answer),
                                VerbAnswers(answer), streams)
       IN  IF r.panic
           THEN Crash
           ELSE \E op \in Ops :
             /\ call' = [call EXCEPT ![c] = [op |-> op, gvk |-> gvk,
                                             namespace |-> ns]]
             /\ ncalls' = ncalls + 1
             /\ probes' = [probes EXCEPT ![gvk] =
                             IF r.probed THEN @ + 1 ELSE @]
             /\ informer' = [informer EXCEPT ![c] = r.informer]
             /\ mustHaveVerbs' = [mustHaveVerbs EXCEPT ![c] = r.have]
             /\ registered' = [registered EXCEPT ![c] = NoInformer]
             /\ IF r.err # Nil
                THEN /\ pc' = [pc EXCEPT ![c] = "done"]
                     /\ ret' = [ret EXCEPT ![c] = ResolveFailed(op, r.err)]
                     /\ UNCHANGED <<streams, started, handlers>>
                ELSE /\ pc' = [pc EXCEPT ![c] = "lock"]
                     /\ ret' = [ret EXCEPT ![c] = Nil]
                     /\ streams' = streams \cup {r.informer}
                     /\ started' = streams'
                     /\ handlers' = [s \in streams' |->
                                       IF s \in streams THEN handlers[s]
                                       ELSE 0]
             /\ seenGVKs' = IF r.err # Nil
                             THEN SeenAfter(seenGVKs, gvk, r.err)
                             ELSE seenGVKs
             /\ UNCHANGED <<mu, synced, stopped>>
  /\ UNCHANGED <<getVars, accessVars, listVars>>

\* What the operation does with the resolved informer, and its return: Watch
\* adds the handler to the informer; List and Get only read its lister, which
\* GetSpec follows for Get.
Serve(c) ==
  /\ IF call[c].op = "Watch"
     THEN /\ handlers' = [handlers EXCEPT ![informer[c]] = @ + 1]
          /\ registered' = [registered EXCEPT ![c] = informer[c]]
     ELSE UNCHANGED <<handlers, registered>>
  /\ ret' = [ret EXCEPT ![c] = Nil]
  /\ pc' = [pc EXCEPT ![c] = "done"]

\* The look-up in seenGVKs and what follows it, entered without dc.mu.Lock().
LockUnguarded(c) ==
  /\ ~Panicked
  /\ pc[c] = "lock"
  /\ IF call[c].gvk \in seenGVKs
     THEN /\ Serve(c)
          /\ mu' = Unlocked
     ELSE /\ pc' = [pc EXCEPT ![c] = "wait"]
          /\ mu' = c
          /\ UNCHANGED <<ret, registered, handlers>>
  /\ UNCHANGED <<call, informer, seenGVKs, streams, started, synced, stopped,
                 probes, ncalls, mustHaveVerbs>>
  /\ UNCHANGED <<getVars, accessVars, listVars>>

\* dc.mu.Lock() and the look-up in seenGVKs: for a seen type the informer is
\* returned (the deferred Unlock runs) and the operation served; for an
\* unseen one the caller goes on to wait with dc.mu held.
Lock(c) ==
  /\ ~Panicked
  /\ pc[c] = "lock"
  /\ mu = Unlocked
  /\ IF call[c].gvk \in seenGVKs
     THEN /\ Serve(c)
          /\ mu' = Unlocked
     ELSE /\ pc' = [pc EXCEPT ![c] = "wait"]
          /\ mu' = c
          /\ UNCHANGED <<ret, registered, handlers>>
  /\ UNCHANGED <<call, informer, seenGVKs, streams, started, synced, stopped,
                 probes, ncalls, mustHaveVerbs>>
  /\ UNCHANGED <<getVars, accessVars, listVars>>

\* kcache.WaitForCacheSync returns: true once HasSynced holds, false once its
\* stop channel is closed.  On true seenGVKs is written, dc.mu released and
\* the operation served; on false the call fails with "shutting down".
Wait(c) ==
  /\ ~Panicked
  /\ pc[c] = "wait"
  /\ \E ok \in {b \in BOOLEAN : IF b THEN HasSynced(informer[c])
                                     ELSE ChannelClosed(WaitChannel)} :
       IF ok
       THEN /\ seenGVKs' = SeenAfter(seenGVKs, call[c].gvk, Nil)
            /\ Serve(c)
            /\ UNCHANGED informer
       ELSE /\ pc' = [pc EXCEPT ![c] = "done"]
            /\ informer' = [informer EXCEPT ![c] = NoInformer]
            /\ ret' = [ret EXCEPT ![c] =
                         ResolveFailed(call[c].op, ErrShuttingDown)]
            /\ seenGVKs' = SeenAfter(seenGVKs, call[c].gvk, ErrShuttingDown)
            /\ UNCHANGED <<registered, handlers>>
  /\ mu' = Unlocked
  /\ UNCHANGED <<call, streams, started, synced, stopped, probes, ncalls,
                 mustHaveVerbs>>
  /\ UNCHANGED <<getVars, accessVars, listVars>>

\* A started informer receives and applies its initial list.
InformerSync(s) ==
  /\ ~Panicked
  /\ ~stopped
  /\ s \in started \ synced
  /\ synced' = synced \cup {s}
  /\ UNCHANGED <<pc, call, informer, ret, registered, mu, seenGVKs, streams,
                 started, stopped, handlers, probes, ncalls, mustHaveVerbs>>
  /\ UNCHANGED <<getVars, accessVars, listVars>>

\* The owner of stopCh closes it.
Shutdown ==
  /\ ~Panicked
  /\ ~stopped
  /\ stopped' = TRUE
  /\ UNCHANGED <<pc, call, informer, ret, registered, mu, seenGVKs, streams,
                 started, synced, handlers, probes, ncalls, mustHaveVerbs>>
  /\ UNCHANGED <<getVars, accessVars, listVars>>

CallerStep(c) == Begin(c) \/ Lock(c) \/ Wait(c)

\* ----------------------------------------------------------- specifications
\* Spec runs the callers of the cache: no Get of GetSpec and no checkAccess
\* of AccessSpec is under way, and their inputs and results are empty.
GetIdle == gpc = "idle" /\ gin = <<>> /\ gout = <<>>

AccessIdle == apc = "idle" /\ ain = <<>> /\ aout = <<>>

ListIdle == lpc = "idle" /\ lin = <<>> /\ lout = <<>>

Init == CacheInit /\ GetIdle /\ AccessIdle /\ ListIdle

Next ==
  \/ \E c \in Callers : Begin(c)
  \/ \E c \in Callers : Lock(c)
  \/ \E c \in Callers : Wait(c)
  \/ \E s \in streams : InformerSync(s)
  \/ Shutdown

Spec == Init /\ [][Next]_vars

\* A caller that can take its next step takes it; the remote side (the sync
\* of an informer, the shutdown) owes nothing.
FairSpec == Spec /\ \A c \in Callers : WF_vars(CallerStep(c))

GetSpecInit == CacheInit /\ GetInit /\ AccessIdle /\ ListIdle
GetNext == GetCall
GetSpec == GetSpecInit /\ [][GetNext]_vars

AccessSpecInit == CacheInit /\ GetIdle /\ AccessInit /\ ListIdle
AccessNext == AccessCall
AccessSpec == AccessSpecInit /\ [][AccessNext]_vars

ListSpecInit == CacheInit /\ GetIdle /\ AccessIdle /\ ListInit
ListNext == ListCall
ListSpec == ListSpecInit /\ [][ListNext]_vars

\* ------------------------------------------------------------------ claims

\* C1: the permission probe runs once per type; a call made after the type is
\* Ready (in seenGVKs) goes to the informer without any permission query, so
\* no step adds a probe for a type that is already seen.
C1_NoProbeOnceReady ==
  [][\A g \in seenGVKs : probes'[g] = probes[g]]_vars

\* The fetch of the finished Get call went through (no resolution error).
GetRan == gpc = "done" /\ gin.resolveErr = Nil

AnswerKinds == [i \in 1..RetryAttempts |-> gin.answers[i].kind]

\* C2: a Get whose lister answers not-found calls the lister exactly once,
\* takes no retry delay and returns the not-found error.
C2_NotFoundNotRetried ==
  (GetRan /\ AnswerKinds[1] = "notfound")
    => /\ gout.calls = 1
       /\ gout.delays = 0
       /\ gout.object = NilObject
       /\ IsNotFound(gout.err)

\* C3: a Get whose lister fails with another error twice and then finds the
\* object returns that object with a nil error, and retryCount is 2.
C3_ThirdAttemptSucceeds ==
  (/\ GetRan
   /\ AnswerKinds = <<"error", "error", "found">>
   /\ gin.key.selector.isNil)
    => /\ gout.err = Nil
       /\ gout.object = {[metadata |-> [name |-> gin.key.name,
                                        namespace |-> gin.key.namespace,
                                        labels |-> gin.answers[3].labels]]}
       /\ gout.retryCount = 2

\* C4: a Get whose lister fails with another error on every attempt makes
\* exactly 3 attempts and then returns a nil object and the last error.
C4_ThreeAttemptsThenError ==
  (GetRan /\ AnswerKinds = <<"error", "error", "error">>)
    => /\ gout.calls = 3
       /\ gout.object = NilObject
       /\ gout.err = ErrTransient

\* The wait of caller c returns "shutting down" and leaves the seen set alone.
ShuttingDownReturn(c) ==
  /\ Wait(c)
  /\ pc'[c] = "done"
  /\ ret'[c] = <<"retrieving informer for key", "shutting down">>
  /\ seenGVKs' = seenGVKs

\* C5: whenever the shutdown signal has fired while a caller is in the
\* initial-sync wait, that call returns "shutting down" without adding its
\* type to the seen set: in every such state this return is the caller's
\* next step.
C5_ShutdownAbortsWait ==
  \A c \in Callers :
    (stopped /\ pc[c] = "wait") => ENABLED ShuttingDownReturn(c)

\* C6: while a caller waits for the first sync of one type (its informer has
\* not synced), a caller of another type, Ready or not, can take its step
\* through dc.mu and go on with its own resolution.
C6_OtherTypesNotBlocked ==
  \A a, b \in Callers :
    (/\ pc[a] = "wait"
     /\ informer[a] \notin synced
     /\ pc[b] = "lock"
     /\ call[b].gvk # call[a].gvk)
      => ENABLED Lock(b)

\* C7: with a selector in the key, Get returns an object only if its labels
\* match the selector; a fetched object whose labels do not match gives a nil
\* object and the "filtered by selector" error, which is not not-found.
C7_SelectorRevalidation ==
  (GetRan /\ ~gin.key.selector.isNil)
    => /\ \A u \in gout.object :
            gin.key.selector.labels \subseteq u.metadata.labels
       /\ (/\ gin.answers[gout.calls].kind = "found"
           /\ ~(gin.key.selector.labels
                  \subseteq gin.answers[gout.calls].labels))
            => /\ gout.object = NilObject
               /\ gout.err = <<"object found but filtered by selector">>
               /\ ~IsNotFound(gout.err)

C7_Witness ==
  /\ GetRan
  /\ ~gin.key.selector.isNil
  /\ gin.answers[gout.calls].kind = "found"
  /\ ~(gin.key.selector.labels \subseteq gin.answers[gout.calls].labels)
  /\ gout.err = ErrFiltered

Granted(v) == ain.resp[v] = "allowed"
Shown(v) == IF Granted(v) THEN "true" ELSE "false"

\* C8: checkAccess queries get, list and watch, all three whatever the
\* earlier answers, returns nil exactly when all three are allowed, and
\* otherwise an error that shows for each verb the answer obtained for it.
C8_AccessReport ==
  apc = "done"
    => /\ [i \in 1..Len(aout.queried) |-> aout.queried[i].verb]
            = <<"get", "list", "watch">>
       /\ (aout.err = Nil) <=> (\A v \in VerbSet : Granted(v))
       /\ aout.err # Nil
            => aout.err =
                 <<"requires cluster scoped get/list/watch access, have",
                   "get:", Shown("get"), "list:", Shown("list"),
                   "watch:", Shown("watch")>>

C8_Witness ==
  /\ apc = "done"
  /\ Granted("get") /\ ~Granted("list") /\ ~Granted("watch")
  /\ Len(aout.queried) = 3
  /\ aout.err = <<"requires cluster scoped get/list/watch access, have",
                  "get:", "true", "list:", "false", "watch:", "false">>

\* C9: at most one informer exists per resource type, and every resolution of
\* a type holds the same informer.
C9_OneStreamPerType ==
  /\ \A s, t \in streams : s.gvr = t.gvr => s = t
  /\ \A a, b \in Callers :
       (/\ informer[a] # NoInformer
        /\ informer[b] # NoInformer
        /\ call[a].gvk = call[b].gvk)
         => informer[a] = informer[b]

C9_Witness ==
  \E a, b \in Callers :
    /\ a # b
    /\ call[a].gvk = call[b].gvk
    /\ pc[a] = "wait"
    /\ pc[b] = "lock"
    /\ informer[a] = informer[b]
    /\ informer[a] \in streams

WatchDone(c) == pc[c] = "done" /\ call[c].op = "Watch"

\* C10: Watch returns nil exactly when the resolution succeeded, and then its
\* handler is on the informer of the type; when the resolution failed it
\* returns the wrapped resolution error and its handler is on no informer.
C10_WatchRegistersIffResolved ==
  \A c \in Callers :
    WatchDone(c)
      => /\ (ret[c] = Nil) <=> (informer[c] # NoInformer)
         /\ ret[c] = Nil
              => /\ registered[c] = informer[c]
                 /\ informer[c] \in streams
                 /\ handlers[informer[c]] >= 1
         /\ ret[c] # Nil
              => /\ registered[c] = NoInformer
                 /\ Len(ret[c]) > 1
                 /\ ret[c][1] = "retrieving informer for key"

C10_Witness ==
  \E a, b \in Callers :
    /\ WatchDone(a) /\ ret[a] = Nil /\ registered[a] = informer[a]
    /\ WatchDone(b) /\ ret[b] # Nil /\ registered[b] = NoInformer

\* The call of caller c returns the error of a failed resolution in this step.
FailedReturn(c) ==
  /\ pc'[c] = "done"
  /\ ret'[c] # Nil
  /\ pc[c] = "wait" \/ ncalls' # ncalls
  /\ Begin(c) \/ Wait(c)

\* C11: a call whose resolution fails (resource mapping error, access denied,
\* interrupted wait) leaves the seen set as it was and touches no other
\* caller, so the type is as unknown as before and a later call resolves it
\* anew.
C11_FailedResolutionFrame ==
  [][\A c \in Callers :
       FailedReturn(c)
         => /\ seenGVKs' = seenGVKs
            /\ \A d \in Callers \ {c} :
                 pc'[d] = pc[d] /\ ret'[d] = ret[d] /\ informer'[d] = informer[d]]_vars

\* A call for a type failed, and a later call for the same type went through
\* the whole resolution and made the type Ready.
C11_Witness ==
  \E a, b \in Callers :
    /\ a # b
    /\ pc[a] = "done" /\ ret[a] # Nil
    /\ call[b].gvk = call[a].gvk
    /\ pc[b] = "done" /\ ret[b] = Nil
    /\ call[b].gvk \in seenGVKs
    /\ probes[call[b].gvk] = 2

\* The finished List call read the lister (no resolution or lister error).
ListRan == lpc = "done" /\ lin.resolveErr = Nil /\ lin.listErr = Nil

\* The cached objects a List of the key has to return: those the selector
\* matches (all of them without a selector), of every namespace for the empty
\* namespace and of the key's namespace otherwise.
Expected ==
  {[metadata |-> [name |-> ObjectIDs[i].name,
                  namespace |-> ObjectIDs[i].namespace,
                  labels |-> lin.store[i].labels]] :
     i \in {j \in 1..Len(ObjectIDs) :
              /\ lin.store[j].present
              /\ lin.key.namespace # "" =>
                   ObjectIDs[j].namespace = lin.key.namespace
              /\ lin.key.selector.isNil
                   \/ lin.key.selector.labels \subseteq lin.store[j].labels}}

\* C12: List returns exactly the selector-matching cached objects, each once:
\* of all namespaces for an empty namespace, of the key's namespace and of no
\* other for a non-empty one.
C12_ListScope ==
  ListRan
    => /\ lout.err = Nil
       /\ {lout.list[i] : i \in 1..Len(lout.list)} = Expected
       /\ Len(lout.list) = Cardinality(Expected)

\* A namespaced List with a selector over a store that holds a matching object
\* of another namespace and a non-matching object of its own.
C12_Witness ==
  /\ ListRan
  /\ lin.key.namespace = "default"
  /\ ~lin.key.selector.isNil /\ lin.key.selector.labels # {}
  /\ lin.store[3].present
  /\ lin.key.selector.labels \subseteq lin.store[3].labels
  /\ lin.store[1].present
  /\ lin.key.selector.labels \subseteq lin.store[1].labels
  /\ lin.store[2].present
  /\ ~(lin.key.selector.labels \subseteq lin.store[2].labels)
  /\ Len(lout.list) = 1
  /\ lout.list[1].metadata.name = "web"
  /\ lout.list[1].metadata.namespace = "default"

\* A remote-side collaborator failed during the finished probe: the
\* Kubernetes client could not be had, or a SelfSubjectAccessReview failed.
RemoteFailure ==
  ~ain.clientOK \/ \E v \in VerbSet : ain.resp[v] = "error"

\* C13: a probe during which a remote-side collaborator failed returns an
\* error and does not panic; when the Kubernetes client could not be had it
\* returns the error without using the client for any query.
C13_ProbeFailuresReturned ==
  (apc # "start" /\ RemoteFailure)
    => /\ apc = "done"
       /\ ~aout.panic
       /\ aout.err # Nil
       /\ ~ain.clientOK => aout.queried = <<>>

\* The probe of the caller's call returned true for get, list and watch.
AllAllowed(c) == \A v \in VerbSet : mustHaveVerbs[c][v]

C15_SeenCheckAndSetAtomic ==
  /\ [](\A c \in Callers :
          pc[c] = "wait"
            => /\ mu = c
               /\ call[c].gvk \notin seenGVKs
               /\ \A d \in Callers \ {c} : pc[d] # "wait")
  /\ [][/\ (seenGVKs' # seenGVKs /\ ~Panicked')
            => \E c \in Callers :
                 /\ mu = c /\ pc[c] = "wait" /\ Wait(c)
                 /\ seenGVKs' = seenGVKs \cup {call[c].gvk}
        /\ \A c \in Callers :
             (pc[c] = "lock" /\ pc'[c] \in {"wait", "done"})
               => /\ mu = Unlocked
                  /\ (pc'[c] = "wait") = (call[c].gvk \notin seenGVKs)]_vars

\* Two callers race on one never-seen type: one is in the wait with dc.mu and
\* a synced informer, about to write; the other stands at dc.mu.Lock().
C15_Witness ==
  \E a, b \in Callers :
    /\ pc[a] = "wait" /\ mu = a /\ informer[a] \in synced
    /\ pc[b] = "lock"
    /\ call[b].gvk = call[a].gvk
    /\ call[a].gvk \notin seenGVKs

\* The call of caller c is handed to its informer and served in this step.
Delegated(c) ==
  /\ pc[c] \in {"lock", "wait"}
  /\ pc'[c] = "done"
  /\ ret'[c] = Nil
  /\ Lock(c) \/ Wait(c)

\* C16: every type in the seen set has a stream whose initial list was
\* received and applied, and was marked seen with that stream synced; a call
\* is handed to its stream only when the stream has synced and the type is
\* seen.
C16_SeenImpliesSynced ==
  /\ [](\A g \in seenGVKs :
          \E s \in streams : s.gvr = Resource(GroupKind(g)) /\ s \in synced)
  /\ [][\A c \in Callers :
         /\ Delegated(c)
              => /\ informer[c] \in synced
                 /\ call[c].gvk \in seenGVKs'
         /\ (Wait(c) /\ call[c].gvk \in seenGVKs' \ seenGVKs)
              => informer[c] \in synced]_vars

\* A call was served from a synced stream of a seen type while the stream of
\* another type has started but not synced and its type is not seen.
C16_Witness ==
  \E a \in Callers :
    /\ pc[a] = "done" /\ ret[a] = Nil
    /\ informer[a] \in synced
    /\ call[a].gvk \in seenGVKs
    /\ \E s \in started \ synced :
         \A g \in seenGVKs : s.gvr # Resource(GroupKind(g))

\* C17: while the cache lives, a type in the seen set stays in it whatever
\* step is taken, and a resolution of a seen type that passes dc.mu returns
\* its informer without the sync wait.
C17_ReadyNeverRegresses ==
  [][~Panicked'
       => /\ seenGVKs \subseteq seenGVKs'
          /\ \A c \in Callers :
               (Lock(c) /\ call[c].gvk \in seenGVKs)
                 => /\ pc'[c] = "done"
                    /\ ret'[c] = Nil
                    /\ informer'[c] = informer[c]]_vars

\* Two calls of one type were served: the type is seen, and the call that
\* came to dc.mu second was served without a wait.
C17_Witness ==
  \E a, b \in Callers :
    /\ a # b
    /\ call[a].gvk = call[b].gvk
    /\ call[a].gvk \in seenGVKs
    /\ pc[a] = "done" /\ ret[a] = Nil
    /\ pc[b] = "done" /\ ret[b] = Nil
    /\ mu = Unlocked

\* C18: whatever the lister answers attempt after attempt, a Get that reaches
\* the fetch calls the lister's Get at least once and at most 3 times, with
\* one delay before each further attempt and so at most 2, and returns.
C18_RetryWithinBudget ==
  /\ gpc = "start" => ENABLED GetCall
  /\ GetRan
       => /\ gout.calls >= 1
          /\ gout.calls <= 3
          /\ gout.delays <= 2
          /\ gout.delays + 1 = gout.calls

\* A Get that used its whole budget: three calls of the lister, two delays.
C18_Witness ==
  /\ GetRan
  /\ gout.calls = 3
  /\ gout.delays = 2
  /\ gout.err # Nil

\* The answer of the lister to the last call the finished Get made of it.
LastAnswer == gin.answers[gout.calls]

\* C19: Get never returns a nil object with a nil error.  When the retry
\* wrapper reports failure, Get returns a nil object and the error of the
\* last lister Get, which is not nil; when Get returns a nil error, the
\* object is the one the last call of the lister found.
C19_NoNilObjectWithNilError ==
  gpc = "done"
    => /\ ~(gout.object = NilObject /\ gout.err = Nil)
       /\ (GetRan /\ gout.retryErr # Nil)
            => /\ gout.object = NilObject
               /\ gout.err # Nil
               /\ gout.err = ListerGet(gin.key, LastAnswer).err
       /\ gout.err = Nil
            => /\ GetRan
               /\ LastAnswer.kind = "found"
               /\ gout.object = {[metadata |-> [name |-> gin.key.name,
                                               namespace |-> gin.key.namespace,
                                               labels |-> LastAnswer.labels]]}

\* The retry wrapper reported a failure that is not the error Get returns:
\* the wrapper's is the marked and wrapped one, Get's the lister's own.
C19_Witness ==
  /\ GetRan
  /\ gout.retryErr = <<"lister Get", "lister failure">>
  /\ gout.err = <<"lister failure">>
  /\ gout.object = NilObject

====
